---- MODULE Spec2Model ----
(***************************************************************************)
(* Model of build.rs: one run of the build script, from main's first line  *)
(* to process termination.  The run is sequential; pc is the position in   *)
(* the source.  Environment variables are inputs: each is drawn when the   *)
(* run first reads it and is then fixed for the rest of the run.  The      *)
(* outcome of every external step (subprocess, file system, library) is    *)
(* drawn when the step runs.                                               *)
(*                                                                         *)
(* Text that the code inspects (path segment names, interpreter names,     *)
(* the joined candidate list) is a sequence of one-character strings.      *)
(* An optional value is <<>> (None) or <<v>> (Some(v)).                    *)
(***************************************************************************)
EXTENDS Integers, Sequences, FiniteSets, TLC

VARIABLES cfgWindows, env, pc, ret, idx, python, procs, codegen, stdout, fs,
          eglCalls, branches, status

\* cfgWindows  cfg!(windows): whether the script itself was built for Windows
\* env         the environment variables as read so far
\* pc          position in the source; "done" once the process has ended
\* ret         where generate_egl_bindings returns to
\* idx         index of the next candidate in find_python's loop
\* python      find_python's return value, None until it returns
\* procs       the subprocess invocations attempted so far, in order
\* codegen     the outcome of the codegen subprocess, None until it ran
\* stdout      the lines printed so far, in order
\* fs          the files written so far: path -> content
\* eglCalls    number of calls of generate_egl_bindings
\* branches    the platform branches of main entered so far
\* status      how the process ended
vars == <<cfgWindows, env, pc, ret, idx, python, procs, codegen, stdout, fs,
          eglCalls, branches, status>>

\* ------------------------------------------------------------------ bounds
\* Longest OUT_DIR path, in components, that the environment supplies.
MaxDepth == 4
\* Largest exit code the codegen subprocess returns.
MaxExit == 2

\* -------------------------------------------------------------------- text
production == <<"p","r","o","d","u","c","t","i","o","n">>
production_dash == production \o <<"-">>
production_lto == production_dash \o <<"l","t","o">>
productionx == production \o <<"x">>
produc == <<"p","r","o","d","u","c">>
debug == <<"d","e","b","u","g">>
DotDot == <<".",".">>
python3 == <<"p","y","t","h","o","n","3">>
python_exe == <<"p","y","t","h","o","n",".","e","x","e">>
pythonName == <<"p","y","t","h","o","n">>
opt_py == <<"/","o","p","t","/","p","y">>
egl_bindings_rs == <<"e","g","l","_","b","i","n","d","i","n","g","s",".","r","s">>
libgcc_a == <<"l","i","b","g","c","c",".","a">>
CommaSpace == <<",", " ">>

\* str::starts_with
StartsWith(s, prefix) ==
    /\ Len(s) >= Len(prefix)
    /\ SubSeq(s, 1, Len(prefix)) = prefix

\* [&str]::join
RECURSIVE Join(_, _)
Join(names, sep) ==
    IF names = <<>> THEN <<>>
    ELSE IF Len(names) = 1 THEN names[1]
    ELSE names[1] \o sep \o Join(Tail(names), sep)

\* ------------------------------------------------------------------- paths
\* A path is its component list: abs says whether it starts at the root.
\* Path::parent: the path without its last component; None for the root
\* and for the empty path.
Parent(p) ==
    IF p.segs = <<>> THEN <<>>
    ELSE << [abs |-> p.abs, segs |-> SubSeq(p.segs, 1, Len(p.segs) - 1)] >>

\* Path::file_name: the last component when it is a normal one; None for
\* the root, the empty path and a path ending in "..".
FileName(p) ==
    IF p.segs = <<>> THEN <<>>
    ELSE IF p.segs[Len(p.segs)] = DotDot THEN <<>>
    ELSE << p.segs[Len(p.segs)] >>

\* Path::join with a plain file name
PathJoin(p, name) == [abs |-> p.abs, segs |-> Append(p.segs, name)]

\* ------------------------------------------------------------- environment
Unread == [st |-> "unread", utf8 |-> TRUE, v |-> <<>>]
Unset == [st |-> "unset", utf8 |-> TRUE, v |-> <<>>]
SetTo(x, u) == [st |-> "set", utf8 |-> u, v |-> <<x>>]

\* env::var_os(..): Some for every set variable
VarOs(e) == IF e.st = "set" THEN e.v ELSE <<>>
\* env::var(..).ok(): Some only for a set variable holding valid Unicode
Var(e) == IF e.st = "set" /\ e.utf8 THEN e.v ELSE <<>>

ProfileNames == {production, production_dash, production_lto, productionx,
                 produc, debug, DotDot}
FillerNames == {production, debug}

\* Component lists of length n whose last component after three parent()
\* steps (the one the classifier looks at) ranges over ProfileNames.
SegsOfLen(n) ==
    { s \in [1..n -> ProfileNames] :
        \A i \in 1..n : i # n - 3 => s[i] \in FillerNames }

OutDirPaths ==
    { [abs |-> a, segs |-> s] :
        a \in BOOLEAN, s \in UNION { SegsOfLen(n) : n \in 0..MaxDepth } }

OutDirValues ==
    {Unset} \cup { SetTo(p, u) : p \in OutDirPaths, u \in BOOLEAN }
ServoPathValues == {Unset, SetTo("servo", TRUE), SetTo("servo", FALSE)}
Python3Values ==
    {Unset} \cup { SetTo(n, TRUE) : n \in {python3, opt_py, <<>>} }
            \cup { SetTo(opt_py, FALSE) }
TargetOsValues ==
    {Unset, SetTo("android", FALSE)}
      \cup { SetTo(o, TRUE) : o \in {"windows", "macos", "android", "linux"} }
TargetEnvValues ==
    {Unset, SetTo("ohos", FALSE)} \cup { SetTo(e, TRUE) : e \in {"ohos", "gnu", ""} }

\* The first read of a variable fixes its value for the run.
Read(name, values, val) ==
    /\ IF env[name].st = "unread" THEN val \in values ELSE val = env[name]
    /\ env' = [env EXCEPT ![name] = val]

\* ------------------------------------------------------------- termination
Running == [kind |-> "running", code |-> 0, msg |-> "", tried |-> <<>>]
ExitOk == [kind |-> "exit", code |-> 0, msg |-> "", tried |-> <<>>]
Panic(m) == [kind |-> "panic", code |-> 101, msg |-> m, tried |-> <<>>]

Terminate(s) ==
    /\ status' = s
    /\ pc' = "done"

Goto(l) ==
    /\ pc' = l
    /\ UNCHANGED status

\* Command::new(prog)...: one attempt to start a subprocess; spawned says
\* whether the operating system started it, exit0 whether it then ended
\* with exit status 0.
Spawn(kind, prog, spawned, exit0) ==
    procs' = Append(procs, [kind |-> kind, prog |-> prog, spawned |-> spawned,
                            exit0 |-> spawned /\ exit0])

\* println!: one line on standard output, read by cargo.
Line(key, val) == [key |-> key, val |-> val, path |-> <<>>]
LineWithPath(key, val, p) == [key |-> key, val |-> val, path |-> <<p>>]
Println(lines) == stdout' = stdout \o lines

OutDir == Var(env["OUT_DIR"])[1]

Init ==
    /\ cfgWindows \in BOOLEAN
    /\ env = [n \in {"SERVO_PATH", "PYTHON3", "OUT_DIR",
                     "CARGO_CFG_TARGET_OS", "CARGO_CFG_TARGET_ENV"} |-> Unread]
    /\ pc = "servo_path"
    /\ ret = ""
    /\ idx = 1
    /\ python = <<>>
    /\ procs = <<>>
    /\ codegen = <<>>
    /\ stdout = <<>>
    /\ fs = <<>>
    /\ eglCalls = 0
    /\ branches = <<>>
    /\ status = Running

\* Variant of ReadServoPath: an unset SERVO_PATH falls back to a default.
ReadServoPath_Default ==
    /\ pc = "servo_path"
    /\ \E val \in ServoPathValues :
        /\ Read("SERVO_PATH", ServoPathValues, val)
        /\ IF VarOs(val) # <<>> /\ ~val.utf8
           THEN Terminate(Panic("unwrap: SERVO_PATH is not valid Unicode"))
           ELSE Goto("current_dir")
    /\ UNCHANGED <<cfgWindows, ret, idx, python, procs, codegen, stdout, fs, eglCalls,
                   branches>>

\* ------------------------------------------- generate_webidl_bindings
\* let servo_path = if let Some(..) = env::var_os("SERVO_PATH") {
\*     servo_env_path.into_string().unwrap() } else { panic!(..) };
ReadServoPath ==
    /\ pc = "servo_path"
    /\ \E val \in ServoPathValues :
        /\ Read("SERVO_PATH", ServoPathValues, val)
        /\ IF VarOs(val) = <<>>
           THEN Terminate(Panic("Set SERVO_PATH to the root of your servo repository"))
           ELSE IF ~val.utf8
           THEN Terminate(Panic("unwrap: SERVO_PATH is not valid Unicode"))
           ELSE Goto("current_dir")
    /\ UNCHANGED <<cfgWindows, ret, idx, python, procs, codegen, stdout, fs, eglCalls,
                   branches>>

\* let cwd = env::current_dir().unwrap();
CurrentDir ==
    /\ pc = "current_dir"
    /\ \E ok \in BOOLEAN :
        IF ok THEN Goto("out_dir")
        ELSE Terminate(Panic("unwrap: current_dir"))
    /\ UNCHANGED <<cfgWindows, env, ret, idx, python, procs, codegen, stdout, fs,
                   eglCalls, branches>>

\* let out_dir = PathBuf::from(env::var_os("OUT_DIR").unwrap());
ReadOutDir ==
    /\ pc = "out_dir"
    /\ \E val \in OutDirValues :
        /\ Read("OUT_DIR", OutDirValues, val)
        /\ IF VarOs(val) = <<>>
           THEN Terminate(Panic("unwrap: OUT_DIR is not set"))
           ELSE Goto("find_python")
    /\ UNCHANGED <<cfgWindows, ret, idx, python, procs, codegen, stdout, fs, eglCalls,
                   branches>>

\* ------------------------------------------------------------ find_python
\* if cfg!(windows) { ["python.exe", "python"] } else { ["python3", "python"] }
Candidates ==
    IF cfgWindows THEN <<python_exe, pythonName>> ELSE <<python3, pythonName>>

\* Variant: an empty override counts as no override.
Override_NonEmpty(val) == IF Var(val) = << <<>> >> THEN <<>> ELSE Var(val)

\* env::var("PYTHON3").ok()
Override(val) == Var(val)

\* env::var("PYTHON3").ok().unwrap_or_else(|| { .. })
FindPython ==
    /\ pc = "find_python"
    /\ \E val \in Python3Values :
        /\ Read("PYTHON3", Python3Values, val)
        /\ IF Override(val) # <<>>
           THEN python' = Override(val) /\ Goto("codegen")
           ELSE python' = python /\ Goto("probe")
    /\ idx' = 1
    /\ UNCHANGED <<cfgWindows, ret, procs, codegen, stdout, fs, eglCalls, branches>>

\* Outcomes of Command::new(name).arg("--version").output()
ProbeOutcomes == {"spawn_error", "exit_failure", "exit_success"}
\* Variant: accepts every candidate that could be started.
ProbeAccepts_AnySpawn(r) == r # "spawn_error"

\* .ok().map_or(false, |out| out.status.success())
ProbeAccepts(r) == r = "exit_success"

\* One iteration of `for &name in &candidates`.
Probe ==
    /\ pc = "probe"
    /\ idx <= Len(Candidates)
    /\ \E r \in ProbeOutcomes :
        /\ Spawn("probe", Candidates[idx], r # "spawn_error", r = "exit_success")
        /\ IF ProbeAccepts(r)
           THEN python' = <<Candidates[idx]>> /\ Goto("codegen") /\ idx' = idx
           ELSE python' = python /\ Goto("probe") /\ idx' = idx + 1
    /\ UNCHANGED <<cfgWindows, env, ret, codegen, stdout, fs, eglCalls, branches>>

\* panic!("Can't find python (tried {})! ..", candidates.join(", "))
CantFindPython ==
    [kind |-> "panic", code |-> 101, msg |-> "Can't find python (tried {})!",
     tried |-> Join(Candidates, CommaSpace)]

ProbePanic ==
    /\ pc = "probe"
    /\ idx > Len(Candidates)
    /\ Terminate(CantFindPython)
    /\ UNCHANGED <<cfgWindows, env, ret, idx, python, procs, codegen, stdout, fs,
                   eglCalls, branches>>

\* ------------------------------------------------------- external codegen
\* Outcomes of Command::new(..).arg(..).status(): the spawn fails, or the
\* child ends with an exit code, or is killed by a signal (no code).
CodegenOutcomes ==
    { [spawned |-> FALSE, code |-> <<>>], [spawned |-> TRUE, code |-> <<>>] }
      \cup { [spawned |-> TRUE, code |-> <<c>>] : c \in 0..MaxExit }
\* Variant: every child that ran to an exit code counts as a success.
Success_AnyExit(o) == o.code # <<>>

\* ExitStatus::success
Success(o) == o.code = <<0>>
\* std::process::exit(1)
CodegenFailureExit(o) == [kind |-> "exit", code |-> 1, msg |-> "", tried |-> <<>>]

Codegen ==
    /\ pc = "codegen"
    /\ \E o \in CodegenOutcomes :
        /\ Spawn("codegen", python[1], o.spawned, o.code = <<0>>)
        /\ IF ~o.spawned THEN Terminate(Panic("unwrap: codegen spawn"))
           ELSE IF ~Success(o) THEN Terminate(CodegenFailureExit(o))
           ELSE Goto("check_cfg")
        /\ codegen' = <<o>>
    /\ UNCHANGED <<cfgWindows, env, ret, idx, python, stdout, fs, eglCalls,
                   branches>>

\* ------------------------------------------------------------------- main
\* println!("cargo::rustc-check-cfg=cfg(servo_production)");
\* println!("cargo::rustc-check-cfg=cfg(servo_do_not_use_in_production)");
CheckCfg ==
    /\ pc = "check_cfg"
    /\ Println(<< Line("cargo::rustc-check-cfg", "cfg(servo_production)"),
                  Line("cargo::rustc-check-cfg", "cfg(servo_do_not_use_in_production)") >>)
    /\ Goto("profile")
    /\ UNCHANGED <<cfgWindows, env, ret, idx, python, procs, codegen, fs,
                   eglCalls, branches>>

\* out.parent().unwrap() .parent().unwrap() .parent().unwrap()
\*    .file_name().unwrap().to_string_lossy()
\* None when one of the four unwraps panics, else Some(profile).
ProfileOf(out) ==
    LET krate == Parent(out)
        build == IF krate = <<>> THEN <<>> ELSE Parent(krate[1])
        third == IF build = <<>> THEN <<>> ELSE Parent(build[1])
    IN  IF third = <<>> THEN <<>> ELSE FileName(third[1])

\* profile == "production" || profile.starts_with("production-")
IsProduction(profile) ==
    \/ profile = production
    \/ StartsWith(profile, production_dash)

\* Variant: two independent tests instead of if/else.
ProfileLines_NoElse(profile) ==
    (IF IsProduction(profile)
     THEN << Line("cargo:rustc-cfg", "servo_production") >> ELSE <<>>)
    \o (IF profile # production
        THEN << Line("cargo:rustc-cfg", "servo_do_not_use_in_production") >> ELSE <<>>)

\* if .. { println!("cargo:rustc-cfg=servo_production"); }
\* else { println!("cargo:rustc-cfg=servo_do_not_use_in_production"); }
ProfileLines(profile) ==
    IF IsProduction(profile)
    THEN << Line("cargo:rustc-cfg", "servo_production") >>
    ELSE << Line("cargo:rustc-cfg", "servo_do_not_use_in_production") >>

\* let out = env::var("OUT_DIR")?; .. println!("cargo:rustc-cfg=..")
Profile ==
    /\ pc = "profile"
    /\ \E val \in OutDirValues :
        /\ Read("OUT_DIR", OutDirValues, val)
        /\ IF Var(val) = <<>>
           THEN /\ Terminate([kind |-> "err", code |-> 1, msg |-> "OUT_DIR: VarError",
                              tried |-> <<>>])
                /\ UNCHANGED stdout
           ELSE IF ProfileOf(Var(val)[1]) = <<>>
           THEN /\ Terminate(Panic("unwrap: OUT_DIR has no profile segment"))
                /\ UNCHANGED stdout
           ELSE /\ Println(ProfileLines(ProfileOf(Var(val)[1])[1]))
                /\ Goto("target_os")
    /\ UNCHANGED <<cfgWindows, ret, idx, python, procs, codegen, fs, eglCalls,
                   branches>>

\* let target_os = env::var("CARGO_CFG_TARGET_OS").unwrap();
ReadTargetOs ==
    /\ pc = "target_os"
    /\ \E val \in TargetOsValues :
        /\ Read("CARGO_CFG_TARGET_OS", TargetOsValues, val)
        /\ IF Var(val) = <<>>
           THEN Terminate(Panic("unwrap: CARGO_CFG_TARGET_OS"))
           ELSE Goto("target_env")
    /\ UNCHANGED <<cfgWindows, ret, idx, python, procs, codegen, stdout, fs,
                   eglCalls, branches>>

\* let target_env = env::var("CARGO_CFG_TARGET_ENV").unwrap();
ReadTargetEnv ==
    /\ pc = "target_env"
    /\ \E val \in TargetEnvValues :
        /\ Read("CARGO_CFG_TARGET_ENV", TargetEnvValues, val)
        /\ IF Var(val) = <<>>
           THEN Terminate(Panic("unwrap: CARGO_CFG_TARGET_ENV"))
           ELSE Goto("platform")
    /\ UNCHANGED <<cfgWindows, ret, idx, python, procs, codegen, stdout, fs,
                   eglCalls, branches>>

target_os == Var(env["CARGO_CFG_TARGET_OS"])[1]
target_env == Var(env["CARGO_CFG_TARGET_ENV"])[1]

\* Variant: the target environment is tested before the target OS.
PlatformBranch_OhosFirst(os, tenv) ==
    IF tenv = "ohos" THEN "ohos"
    ELSE IF os = "windows" THEN "windows"
    ELSE IF os = "macos" THEN "macos"
    ELSE IF os = "android" THEN "android"
    ELSE "none"

\* if target_os == "windows" {..} else if target_os == "macos" {..}
\* else if target_os == "android" {..} else if target_env == "ohos" {..}
PlatformBranch(os, tenv) ==
    IF os = "windows" THEN "windows"
    ELSE IF os = "macos" THEN "macos"
    ELSE IF os = "android" THEN "android"
    ELSE IF tenv = "ohos" THEN "ohos"
    ELSE "none"

\* First position of each branch, and where generate_egl_bindings returns.
BranchEntry(b) ==
    CASE b = "windows" -> "winres"
      [] b = "macos" -> "cc"
      [] b = "android" -> "egl_create"
      [] b = "ohos" -> "egl_create"
      [] OTHER -> "vergen"
EglReturn(b) == IF b = "android" THEN "libgcc_create" ELSE "vergen"

Platform ==
    /\ pc = "platform"
    /\ LET b == PlatformBranch(target_os, target_env) IN
        /\ branches' = IF b = "none" THEN branches ELSE Append(branches, b)
        /\ ret' = EglReturn(b)
        /\ Goto(BranchEntry(b))
    /\ UNCHANGED <<cfgWindows, env, idx, python, procs, codegen, stdout, fs,
                   eglCalls>>

\* #[cfg(windows)] { winres::WindowsResource::new() .. res.compile().unwrap() }
\* #[cfg(not(windows))] panic!("Cross-compiling to windows is currently not supported")
WinRes ==
    /\ pc = "winres"
    /\ IF cfgWindows
       THEN \E ok \in BOOLEAN :
            /\ Spawn("resource_compiler", <<"r","c">>, TRUE, ok)
            /\ IF ok THEN Goto("vergen")
               ELSE Terminate(Panic("unwrap: winres compile"))
       ELSE /\ Terminate(Panic("Cross-compiling to windows is currently not supported"))
            /\ UNCHANGED procs
    /\ UNCHANGED <<cfgWindows, env, ret, idx, python, codegen, stdout, fs,
                   eglCalls, branches>>

\* cc::Build::new().file("platform/macos/count_threads.c").compile("count_threads")
\* compile() panics when the native compiler fails.  What the cc crate
\* itself prints is not part of build.rs and is left out of stdout.
CcCompile ==
    /\ pc = "cc"
    /\ \E ok \in BOOLEAN :
        /\ Spawn("native_compiler", <<"c","c">>, TRUE, ok)
        /\ IF ok THEN Goto("vergen")
           ELSE Terminate(Panic("cc: compile count_threads"))
    /\ UNCHANGED <<cfgWindows, env, ret, idx, python, codegen, stdout, fs,
                   eglCalls, branches>>

\* -------------------------------------------------- generate_egl_bindings
WriteFile(path, content) == fs' = (path :> content) @@ fs

\* let mut file = File::create(out_dir.join("egl_bindings.rs")).unwrap();
EglCreate ==
    /\ pc = "egl_create"
    /\ eglCalls' = eglCalls + 1
    /\ \E ok \in BOOLEAN :
        IF ok THEN WriteFile(PathJoin(OutDir, egl_bindings_rs), "") /\ Goto("egl_write")
        ELSE UNCHANGED fs /\ Terminate(Panic("unwrap: create egl_bindings.rs"))
    /\ UNCHANGED <<cfgWindows, env, ret, idx, python, procs, codegen, stdout,
                   branches>>

\* Registry::new(Api::Egl, (1, 5), ..).write_bindings(.., &mut file).unwrap();
EglWrite ==
    /\ pc = "egl_write"
    /\ \E ok \in BOOLEAN :
        IF ok
        THEN /\ WriteFile(PathJoin(OutDir, egl_bindings_rs), "EGL 1.5 core bindings")
             /\ Goto("egl_print")
        ELSE /\ WriteFile(PathJoin(OutDir, egl_bindings_rs), "truncated")
             /\ Terminate(Panic("unwrap: write_bindings"))
    /\ UNCHANGED <<cfgWindows, env, ret, idx, python, procs, codegen, stdout,
                   eglCalls, branches>>

\* println!("cargo:rustc-link-lib=EGL");
EglPrint ==
    /\ pc = "egl_print"
    /\ Println(<< Line("cargo:rustc-link-lib", "EGL") >>)
    /\ Goto(ret)
    /\ UNCHANGED <<cfgWindows, env, ret, idx, python, procs, codegen, fs,
                   eglCalls, branches>>

\* ----------------------------------------------------- main, android branch
\* let mut libgcc = File::create(out.join("libgcc.a")).unwrap();
LibgccCreate ==
    /\ pc = "libgcc_create"
    /\ \E ok \in BOOLEAN :
        IF ok THEN WriteFile(PathJoin(OutDir, libgcc_a), "") /\ Goto("libgcc_write")
        ELSE UNCHANGED fs /\ Terminate(Panic("unwrap: create libgcc.a"))
    /\ UNCHANGED <<cfgWindows, env, ret, idx, python, procs, codegen, stdout,
                   eglCalls, branches>>

\* Variant: the shim names the library it is meant to replace.
ShimContent_Libgcc == "INPUT(-lgcc)"

\* b"INPUT(-lunwind)"
ShimContent == "INPUT(-lunwind)"

\* libgcc.write_all(b"INPUT(-lunwind)").unwrap();
LibgccWrite ==
    /\ pc = "libgcc_write"
    /\ \E ok \in BOOLEAN :
        IF ok
        THEN WriteFile(PathJoin(OutDir, libgcc_a), ShimContent) /\ Goto("link_search")
        ELSE UNCHANGED fs /\ Terminate(Panic("unwrap: write libgcc.a"))
    /\ UNCHANGED <<cfgWindows, env, ret, idx, python, procs, codegen, stdout,
                   eglCalls, branches>>

\* println!("cargo:rustc-link-search=native={}", out.display());
LinkSearchLine(out) == LineWithPath("cargo:rustc-link-search", "native=", out)

LinkSearch ==
    /\ pc = "link_search"
    /\ Println(<< LinkSearchLine(OutDir) >>)
    /\ Goto("vergen")
    /\ UNCHANGED <<cfgWindows, env, ret, idx, python, procs, codegen, fs,
                   eglCalls, branches>>

\* ----------------------------------------------------- main, version stamp
\* Variant: the warning without the sentinel constant.
NoGitLines_WarningOnly ==
    << Line("cargo:warning", "Could not generate git version information") >>

\* Lines printed when EmitBuilder::..emit() returns Err.
NoGitLines ==
    << Line("cargo:warning", "Could not generate git version information"),
       Line("cargo:rustc-env", "VERGEN_GIT_SHA=nogit") >>

\* if let Err(error) = EmitBuilder::builder().fail_on_error().git_sha(true).emit() {..}
\* The capture fails when the version-control query cannot be started or
\* ends with a failure; on success vergen prints the constant itself.
Vergen ==
    /\ pc = "vergen"
    /\ \E spawned \in BOOLEAN, ok \in BOOLEAN :
        /\ Spawn("vcs_query", <<"g","i","t">>, spawned, ok)
        /\ IF spawned /\ ok
           THEN Println(<< Line("cargo:rustc-env", "VERGEN_GIT_SHA=<short sha>") >>)
           ELSE Println(NoGitLines)
    /\ Goto("rpath")
    /\ UNCHANGED <<cfgWindows, env, ret, idx, python, codegen, fs, eglCalls,
                   branches>>

\* if target_os == "macos" { println!("cargo:rustc-link-arg=-Wl,-rpath,..") }  Ok(())
RpathLines(os) ==
    IF os = "macos"
    THEN << Line("cargo:rustc-link-arg", "-Wl,-rpath,@executable_path/lib/") >>
    ELSE <<>>

Rpath ==
    /\ pc = "rpath"
    /\ Println(RpathLines(target_os))
    /\ Terminate(ExitOk)
    /\ UNCHANGED <<cfgWindows, env, ret, idx, python, procs, codegen, fs,
                   eglCalls, branches>>

Next ==
    \/ ReadServoPath
    \/ CurrentDir
    \/ ReadOutDir
    \/ FindPython
    \/ Probe
    \/ ProbePanic
    \/ Codegen
    \/ CheckCfg
    \/ Profile
    \/ ReadTargetOs
    \/ ReadTargetEnv
    \/ Platform
    \/ WinRes
    \/ CcCompile
    \/ EglCreate
    \/ EglWrite
    \/ EglPrint
    \/ LibgccCreate
    \/ LibgccWrite
    \/ LinkSearch
    \/ Vergen
    \/ Rpath

Spec == Init /\ [][Next]_vars

\* =================================================================== claims
Emitted(line) == \E i \in DOMAIN stdout : stdout[i] = line
Count(line) == Cardinality({ i \in DOMAIN stdout : stdout[i] = line })
ProductionFlag == Line("cargo:rustc-cfg", "servo_production")
NonProductionFlag == Line("cargo:rustc-cfg", "servo_do_not_use_in_production")
FlagCount == Count(ProductionFlag) + Count(NonProductionFlag)
Probes == SelectSeq(procs, LAMBDA r : r.kind = "probe")
Completed == pc = "done" /\ status = ExitOk
\* The text msg holds the text name somewhere.
Contains(msg, name) ==
    \E i \in 1..(Len(msg) - Len(name) + 1) : SubSeq(msg, i, i + Len(name) - 1) = name
InFs(path, content) == path \in DOMAIN fs /\ fs[path] = content
IsSet(name) == env[name].st = "set" /\ env[name].utf8
\* The Profile Classifier has run to its end (flag printed, Err or panic).
ClassifierRan ==
    /\ Emitted(Line("cargo::rustc-check-cfg", "cfg(servo_production)"))
    /\ pc # "profile"
\* The Profile Classifier has printed its flag and main went on.
ClassifierPassed == pc = "target_os" \/ env["CARGO_CFG_TARGET_OS"].st # "unread"

\* C1 (as claimed): every terminated run, the fatal aborts included, has
\* emitted exactly one of the two profile flags.
C1_ExactlyOneFlagInEveryRun == pc = "done" => FlagCount = 1

\* C1 (amended): never both flags and never one flag twice; exactly one flag
\* once the Profile Classifier has passed, so in every run that completes;
\* no flag in a run that ends before or inside the classifier.
C1_OneFlagOncePastClassifier ==
    /\ ~(Emitted(ProductionFlag) /\ Emitted(NonProductionFlag))
    /\ FlagCount = IF ClassifierPassed THEN 1 ELSE 0
    /\ Completed => FlagCount = 1

C1_Witness == Completed /\ FlagCount = 1 /\ Emitted(ProductionFlag)

\* C2 (as claimed): for every Unicode OUT_DIR with three parent levels the
\* classifier emits exactly one flag, servo_production iff the third parent
\* has a file name that is "production" or starts with "production-", and
\* servo_do_not_use_in_production otherwise (also when it has no file name).
C2_ClassifiesEveryThreeParentPath ==
    (ClassifierRan /\ IsSet("OUT_DIR") /\ Len(OutDir.segs) >= 3) =>
        LET third == [abs |-> OutDir.abs,
                      segs |-> SubSeq(OutDir.segs, 1, Len(OutDir.segs) - 3)]
            name == IF third.segs = <<>> \/ third.segs[Len(third.segs)] = DotDot
                    THEN <<>> ELSE third.segs[Len(third.segs)]
            prod == \/ name = production
                    \/ \E n \in 0..Len(name) : SubSeq(name, 1, n) = production_dash
        IN  /\ FlagCount = 1
            /\ Emitted(ProductionFlag) <=> prod

\* C3: with PYTHON3 unset the candidates are probed in list order, each at
\* most once, the search goes on only after a failed probe, the candidate
\* returned is the last one probed and its probe exited successfully, and
\* when every probe failed the run panics with a message that holds every
\* candidate name.
C3_FirstWorkingCandidate ==
    env["PYTHON3"].st = "unset" =>
        /\ Len(Probes) <= Len(Candidates)
        /\ \A i \in 1..Len(Probes) : Probes[i].prog = Candidates[i]
        /\ \A i \in 1..(Len(Probes) - 1) : ~Probes[i].exit0
        /\ python # <<>> =>
            /\ Len(Probes) >= 1
            /\ Probes[Len(Probes)].exit0
            /\ python[1] = Probes[Len(Probes)].prog
        /\ (python = <<>> /\ pc # "probe") =>
            /\ pc = "done"
            /\ status.kind = "panic"
            /\ Len(Probes) = Len(Candidates)
            /\ \A i \in 1..Len(Probes) : ~Probes[i].exit0
            /\ \A i \in 1..Len(Candidates) : Contains(status.tried, Candidates[i])
        /\ (\A i \in 1..Len(Candidates) : i <= Len(Probes) /\ ~Probes[i].exit0)
             => pc \in {"probe", "done"} /\ python = <<>>

C3_Witness ==
    /\ env["PYTHON3"].st = "unset"
    /\ Len(Probes) = 2
    /\ ~Probes[1].exit0
    /\ python = <<pythonName>>
    /\ codegen # <<>>

\* C4: with PYTHON3 set to a string, find_python returns exactly that string
\* and no probe is ever started.
C4_OverrideSkipsProbe ==
    IsSet("PYTHON3") =>
        /\ python = env["PYTHON3"].v
        /\ Probes = <<>>
        /\ \A i \in DOMAIN procs :
             procs[i].kind = "codegen" => procs[i].prog = env["PYTHON3"].v[1]

C4_Witness ==
    /\ env["PYTHON3"] = SetTo(<<>>, TRUE)
    /\ codegen # <<>>
    /\ python = << <<>> >>

\* C5: with SERVO_PATH unset the run has ended in a panic whose message tells
\* the user to set SERVO_PATH, and no subprocess was ever attempted.
C5_AbortBeforeAnySubprocess ==
    env["SERVO_PATH"].st = "unset" =>
        /\ pc = "done"
        /\ status = Panic("Set SERVO_PATH to the root of your servo repository")
        /\ procs = <<>>

C5_Witness == env["SERVO_PATH"].st = "unset" /\ pc = "done" /\ stdout = <<>>

\* C6 (as claimed): when the codegen child ends with a non-zero exit code c,
\* the run ends at once with exit code c.
C6_ExitCodePropagated ==
    (codegen # <<>> /\ codegen[1].code # <<>> /\ codegen[1].code # <<0>>) =>
        /\ pc = "done"
        /\ status.kind = "exit"
        /\ status.code = codegen[1].code[1]

VcsFailed == \E i \in DOMAIN procs : procs[i].kind = "vcs_query" /\ ~procs[i].exit0

\* C7: when the version capture failed the run goes on: it has printed the
\* warning and VERGEN_GIT_SHA=nogit (once), it does not panic, it ends with
\* success, on macos after printing the rpath directive; and nogit is
\* printed only when the capture failed.
C7_VersionFailureIsSoft ==
    /\ VcsFailed =>
        /\ Emitted(Line("cargo:warning", "Could not generate git version information"))
        /\ Count(Line("cargo:rustc-env", "VERGEN_GIT_SHA=nogit")) = 1
        /\ pc \in {"rpath", "done"}
        /\ pc = "done" =>
            /\ status = ExitOk
            /\ target_os = "macos" <=>
                 Emitted(Line("cargo:rustc-link-arg", "-Wl,-rpath,@executable_path/lib/"))
    /\ Emitted(Line("cargo:rustc-env", "VERGEN_GIT_SHA=nogit")) => VcsFailed

C7_Witness == VcsFailed /\ Completed /\ target_os = "macos"

AndroidRun == IsSet("CARGO_CFG_TARGET_OS") /\ target_os = "android"

\* C8: an android run that completes has written egl_bindings.rs and the
\* shim libgcc.a (content INPUT(-lunwind)) into OUT_DIR, has printed the EGL
\* link-lib line once and the link-search line for OUT_DIR; in an android
\* run a link-search line is printed only once the shim is written.
C8_AndroidArtifacts ==
    AndroidRun =>
        /\ Completed =>
            /\ InFs(PathJoin(OutDir, egl_bindings_rs), "EGL 1.5 core bindings")
            /\ InFs(PathJoin(OutDir, libgcc_a), "INPUT(-lunwind)")
            /\ Count(Line("cargo:rustc-link-lib", "EGL")) = 1
            /\ Count(LineWithPath("cargo:rustc-link-search", "native=", OutDir)) = 1
        /\ \A i \in DOMAIN stdout :
             stdout[i].key = "cargo:rustc-link-search" =>
                /\ stdout[i].path = <<OutDir>>
                /\ InFs(PathJoin(OutDir, libgcc_a), "INPUT(-lunwind)")

C8_Witness == AndroidRun /\ Completed /\ target_env = "ohos"

Dispatched ==
    /\ IsSet("CARGO_CFG_TARGET_OS")
    /\ IsSet("CARGO_CFG_TARGET_ENV")
    /\ pc # "platform"

\* C9: at most one platform branch runs, chosen in the order windows, macos,
\* android, ohos environment; the graphics generator is called at most
\* once, and it is called exactly for android, or for ohos with an OS that
\* is none of windows, macos, android.
C9_OneBranchByPriority ==
    /\ Len(branches) <= 1
    /\ eglCalls <= 1
    /\ ~Dispatched => branches = <<>> /\ eglCalls = 0
    /\ Dispatched =>
        LET os == target_os
            osBranch == os \in {"windows", "macos", "android"}
            egl == os = "android" \/ (target_env = "ohos" /\ ~osBranch)
        IN  /\ branches = IF osBranch THEN <<os>>
                          ELSE IF target_env = "ohos" THEN <<"ohos">> ELSE <<>>
            /\ eglCalls = 1 => egl
            /\ (egl /\ pc # "egl_create") => eglCalls = 1

C9_Witness ==
    /\ Dispatched
    /\ Completed
    /\ target_os = "macos"
    /\ target_env = "ohos"
    /\ eglCalls = 0

NoGeneratorStep ==
    FlagCount > 0 => (fs' = fs /\ eglCalls' = eglCalls /\ codegen' = codegen)

\* C10 (as claimed): once a profile flag has been printed no file is
\* written and no generator is invoked for the rest of the run.
C10_NoGeneratorAfterFlag == [][NoGeneratorStep]_vars

InterfaceGeneratorDone ==
    FlagCount > 0 => (codegen # <<>> /\ codegen[1].code = <<0>>)
GraphicsGeneratorLate == (eglCalls > 0 \/ fs # <<>>) => FlagCount > 0
NoInterfaceGeneratorStep ==
    FlagCount > 0 => (codegen' = codegen /\ Probes' = Probes)
StamperOnlyEmits ==
    pc \in {"vergen", "rpath", "done"} =>
        (fs' = fs /\ eglCalls' = eglCalls /\ codegen' = codegen)

\* C10 (amended): the interface-description generator has ended with
\* success before a profile flag is printed and neither it nor a probe runs
\* afterwards; the graphics generator runs only after the profile flag was
\* printed; from the start of the version stamper on, no file is written
\* and no generator is invoked.
C10_GeneratorOrder ==
    /\ []InterfaceGeneratorDone
    /\ []GraphicsGeneratorLate
    /\ [][NoInterfaceGeneratorStep]_vars
    /\ [][StamperOnlyEmits]_vars

C10_Witness == Completed /\ eglCalls = 1 /\ FlagCount = 1 /\ fs # <<>>

====
